---------------------------- MODULE Spec2Model ----------------------------
(***************************************************************************)
(* The CUHK-SYSU dataset adapter of src/src/cuhk_sysu.py: the image index  *)
(* lists, the roidb with its on-disk cache, the conversion to detectron2   *)
(* records and the registration of the two dataset producers.              *)
(*                                                                         *)
(* The annotation sources (pool.mat, Images.mat, Train.mat, TestG50.mat),  *)
(* the image files and the cache files are the environment; one record,    *)
(* src, holds the annotation sources and the image files.  Raw coordinates *)
(* are integer valued and inside the 32-bit range, where astype(np.int32)  *)
(* keeps the value; the in-place additions of load_roidb wrap as numpy's   *)
(* int32 additions do.  The annotation files exist: a missing .mat file    *)
(* (FileNotFoundError) is not modelled.                                    *)
(***************************************************************************)
EXTENDS Integers, Sequences, FiniteSets, TLC

VARIABLES src, cache, writes, ds, regIdx, split, catalog, out

vars == <<src, cache, writes, ds, regIdx, split, catalog, out>>

---------------------------------------------------------------------------
(* Bounds of the model *)

\* Pool entries, image boxes and protocol entries of the annotation sources
\* of the load specification, taken together.
MaxSize == 3

\* Entries of pool.mat in the lifecycle specification.
MaxLifePool == 2

---------------------------------------------------------------------------
(* Values *)

Names == {"s1.jpg", "s2.jpg"}

\* The image names in the order str comparison (list.sort) gives them.
NameOrder == <<"s1.jpg", "s2.jpg">>

Splits == {"train", "test"}

Int32Max == 2147483647

Int32Min == (-Int32Max) - 1

Range(f) == {f[i] : i \in DOMAIN f}

MinOf(S) == CHOOSE m \in S : \A o \in S : m <= o

SeqsUpTo(S, n) == UNION {[1..k -> S] : k \in 0..n}

\* numpy int32 addition: the sum modulo 2^32, in [-2^31, 2^31 - 1].
Add32(a, b) ==
  IF a >= 0 /\ b >= 0 /\ a > Int32Max - b
    THEN (a + Int32Min) + (b + Int32Min)
  ELSE IF a < 0 /\ b < 0 /\ a < Int32Min - b
    THEN (a - Int32Min) + (b - Int32Min)
  ELSE a + b

\* ndarray.astype(np.int32) of a row of integer values inside the 32-bit range.
astype_int32(row) == [k \in DOMAIN row |-> Add32(row[k], 0)]

\* osp.join(self.dirname, "Image", "SSM") and osp.join(data_path, name)
data_path == <<"./data", "Image", "SSM">>

image_path(name) == Append(data_path, name)

\* list.sort() of a list built from a set of names
Sorted(S) == SelectSeq(NameOrder, LAMBDA n : n \in S)

---------------------------------------------------------------------------
(* load_image_indexes *)

\* Faulty variant: the train list is every listed image, pool included.
load_image_indexes_NoDifference(s, sp) ==
  IF sp = "test" THEN s.pool
  ELSE Sorted({s.imgs[i].name : i \in DOMAIN s.imgs})

load_image_indexes(s, sp) ==
  LET test == s.pool
  IN IF sp = "test" THEN test
     ELSE LET all_imgs == [i \in 1..Len(s.imgs) |-> s.imgs[i].name]
              train == Range(all_imgs) \ Range(test)
          IN Sorted(train)

---------------------------------------------------------------------------
(* load_roidb: the parts of an uncached load *)

EmptyMap == [n \in {} |-> <<>>]

Put(f, k, v) == [n \in (DOMAIN f) \cup {k} |-> IF n = k THEN v ELSE f[n]]

\* Faulty variant: rows of width or height 0 count as valid.
ValidBoxes_NonNegative(boxes) == SelectSeq(boxes, LAMBDA b : b[3] >= 0 /\ b[4] >= 0)

\* np.where((boxes[:, 2] > 0) & (boxes[:, 3] > 0)): the rows kept, in order
ValidBoxes(boxes) == SelectSeq(boxes, LAMBDA b : b[3] > 0 /\ b[4] > 0)

\* One iteration of `for im_name, _, boxes in all_imgs`.
ParseImage(st, img) ==
  LET valid == ValidBoxes(img.boxes)
  IN IF Len(valid) = 0
       THEN [st EXCEPT !.status = "AssertionError"]
       ELSE [st EXCEPT
               !.boxes = Put(st.boxes, img.name,
                             [i \in 1..Len(valid) |-> astype_int32(valid[i])]),
               !.pids = Put(st.pids, img.name, [i \in 1..Len(valid) |-> -1])]

RECURSIVE ParseImages(_, _, _)
ParseImages(st, imgs, i) ==
  IF i > Len(imgs) \/ st.status # "ok" THEN st
  ELSE ParseImages(ParseImage(st, imgs[i]), imgs, i + 1)

\* Faulty variant: without a match the last row visited gets pid.
set_box_pid_LastRow(boxes, box, pids, pid) ==
  LET hits == {i \in 1..Len(boxes) : boxes[i] = box}
  IN IF hits # {}
       THEN [pids |-> [pids EXCEPT ![MinOf(hits)] = pid], warned |-> FALSE]
       ELSE [pids |-> [pids EXCEPT ![Len(boxes)] = pid], warned |-> TRUE]

\* The first row equal to box gets pid; without one, a warning is logged.
set_box_pid(boxes, box, pids, pid) ==
  LET hits == {i \in 1..Len(boxes) : boxes[i] = box}
  IN IF hits # {}
       THEN [pids |-> [pids EXCEPT ![MinOf(hits)] = pid], warned |-> FALSE]
       ELSE [pids |-> pids, warned |-> TRUE]

RECURSIVE Concat(_, _)
Concat(seqs, i) == IF i > Len(seqs) THEN <<>> ELSE seqs[i] \o Concat(seqs, i + 1)

\* Faulty variant: identities numbered from 1.
TrainCalls_FromOne(train) ==
  Concat([i \in 1..Len(train) |->
            [j \in 1..Len(train[i]) |->
               [name |-> train[i][j].name,
                box |-> astype_int32(train[i][j].box),
                pid |-> i]]], 1)

\* The set_box_pid calls of the train branch, in order: identity index for
\* each scene of the index-th person of Train.mat.
TrainCalls(train) ==
  Concat([i \in 1..Len(train) |->
            [j \in 1..Len(train[i]) |->
               [name |-> train[i][j].name,
                box |-> astype_int32(train[i][j].box),
                pid |-> i - 1]]], 1)

\* The gallery loop stops at the first entry whose box is empty.
GalleryPrefix(g) ==
  LET empties == {j \in 1..Len(g) : Len(g[j].box) = 0}
  IN IF empties = {} THEN g ELSE SubSeq(g, 1, MinOf(empties) - 1)

\* The set_box_pid calls of the test branch: the query, then the gallery.
TestCalls(test) ==
  Concat([i \in 1..Len(test) |->
            <<[name |-> test[i].query.name,
               box |-> astype_int32(test[i].query.box),
               pid |-> i - 1]>>
            \o [j \in 1..Len(GalleryPrefix(test[i].gallery)) |->
                  [name |-> test[i].gallery[j].name,
                   box |-> astype_int32(test[i].gallery[j].box),
                   pid |-> i - 1]]], 1)

\* One call set_box_pid(name_to_boxes[im_name], box, name_to_pids[im_name], index);
\* an image name the global listing lacks is a KeyError.  The log keeps, per
\* call, the image's identities before and after it.
LabelCall(st, c) ==
  IF c.name \notin DOMAIN st.boxes
    THEN [st EXCEPT !.status = "KeyError",
                    !.log = Append(st.log, [name |-> c.name, box |-> c.box,
                                            pid |-> c.pid, before |-> <<>>,
                                            after |-> <<>>, warned |-> FALSE,
                                            raised |-> TRUE])]
    ELSE LET r == set_box_pid(st.boxes[c.name], c.box, st.pids[c.name], c.pid)
         IN [st EXCEPT !.pids = Put(st.pids, c.name, r.pids),
                       !.log = Append(st.log, [name |-> c.name, box |-> c.box,
                                               pid |-> c.pid,
                                               before |-> st.pids[c.name],
                                               after |-> r.pids,
                                               warned |-> r.warned,
                                               raised |-> FALSE])]

RECURSIVE LabelCalls(_, _, _)
LabelCalls(st, calls, i) ==
  IF i > Len(calls) \/ st.status # "ok" THEN st
  ELSE LabelCalls(LabelCall(st, calls[i]), calls, i + 1)

\* boxes[:, 2] += boxes[:, 0]; boxes[:, 3] += boxes[:, 1], on the array itself
ToXYXY(boxes) ==
  [i \in 1..Len(boxes) |->
     [boxes[i] EXCEPT ![3] = Add32(boxes[i][3], boxes[i][1]),
                      ![4] = Add32(boxes[i][4], boxes[i][2])]]

\* Faulty variant: an image the global listing lacks is skipped.
AssembleOne_SkipUnlisted(st, s, im_name) ==
  IF im_name \notin DOMAIN st.boxes
    THEN st
  ELSE IF im_name \notin DOMAIN s.files
    THEN [st EXCEPT !.status = "AssertionError"]
  ELSE [st EXCEPT
          !.boxes = Put(st.boxes, im_name, ToXYXY(st.boxes[im_name])),
          !.refs = Append(st.refs, [ref |-> im_name,
                                    image |-> image_path(im_name),
                                    height |-> s.files[im_name][2],
                                    width |-> s.files[im_name][1]])]

\* One iteration of `for i, im_name in enumerate(self.image_indexes)`: the
\* record appended holds the arrays of name_to_boxes and name_to_pids
\* themselves (ref), not copies.
AssembleOne(st, s, im_name) ==
  IF im_name \notin DOMAIN st.boxes
    THEN [st EXCEPT !.status = "KeyError"]
  ELSE IF im_name \notin DOMAIN s.files
    THEN [st EXCEPT !.status = "AssertionError"]
  ELSE [st EXCEPT
          !.boxes = Put(st.boxes, im_name, ToXYXY(st.boxes[im_name])),
          !.refs = Append(st.refs, [ref |-> im_name,
                                    image |-> image_path(im_name),
                                    height |-> s.files[im_name][2],
                                    width |-> s.files[im_name][1]])]

RECURSIVE Assemble(_, _, _, _)
Assemble(st, s, image_indexes, i) ==
  IF i > Len(image_indexes) \/ st.status # "ok" THEN st
  ELSE Assemble(AssembleOne(st, s, image_indexes[i]), s, image_indexes, i + 1)

\* The value of the list of records: each record with the content its arrays
\* have now.
RoidbValue(st) ==
  [i \in 1..Len(st.refs) |->
     [gt_boxes |-> st.boxes[st.refs[i].ref],
      gt_pids |-> st.pids[st.refs[i].ref],
      image |-> st.refs[i].image,
      height |-> st.refs[i].height,
      width |-> st.refs[i].width]]

\* Faulty variant: the file holds the identities as they were before the
\* labelling.
pickle_Unlabelled(st) ==
  [exists |-> TRUE,
   content |-> [i \in 1..Len(st.refs) |->
                  [RoidbValue(st)[i] EXCEPT
                     !.gt_pids = [j \in DOMAIN RoidbValue(st)[i].gt_pids |-> -1]]]]

\* pickle(roidb, cache_file): the file holds the records by value.
pickle(st) == [exists |-> TRUE, content |-> RoidbValue(st)]

unpickle(file) == file.content

NoFile == [exists |-> FALSE, content |-> <<>>]

\* osp.join(cache_path, self.split + "_roidb.pkl")
cache_file(sp) == <<"cache", sp, "_roidb.pkl">>

CacheFiles == {cache_file(sp) : sp \in Splits}

\* What the computation leaves: its outcome, the arrays, the log, the
\* records, and whether the labelling loops ran to their end.
Computation(parsed, labelled, assembled) ==
  [status |-> assembled.status, boxes |-> assembled.boxes,
   pids |-> assembled.pids, log |-> assembled.log, refs |-> assembled.refs,
   labelled |-> parsed.status = "ok" /\ labelled.status = "ok"]

\* Lines 139-155 after lines 110-137.
AssembleAfter(parsed, labelled, s, image_indexes) ==
  Computation(parsed, labelled, Assemble(labelled, s, image_indexes, 1))

\* Lines 110-155 after lines 88-101.
LabelAfter(parsed, s, sp, image_indexes) ==
  AssembleAfter(parsed,
                LabelCalls(parsed,
                           IF sp = "train" THEN TrainCalls(s.train)
                           ELSE TestCalls(s.test), 1),
                s, image_indexes)

\* Lines 88-155: name_to_boxes and name_to_pids, the labelling, the records.
ComputeRoidb(s, sp, image_indexes) ==
  LabelAfter(ParseImages([status |-> "ok", boxes |-> EmptyMap,
                          pids |-> EmptyMap, log |-> <<>>, refs |-> <<>>],
                         s.imgs, 1),
             s, sp, image_indexes)

\* Lines 156-158: the computed roidb persisted and returned, or the error of
\* the computation propagated.
Persist(c, f, st) ==
  IF st.status = "ok"
    THEN [status |-> "ok", roidb |-> RoidbValue(st),
          cache |-> [c EXCEPT ![f] = pickle(st)],
          hit |-> FALSE, log |-> st.log, labelled |-> TRUE,
          reads |-> {f}, wrote |-> {f}]
    ELSE [status |-> st.status, roidb |-> <<>>, cache |-> c,
          hit |-> FALSE, log |-> st.log, labelled |-> st.labelled,
          reads |-> {f}, wrote |-> {}]

\* Lines 88-158: the roidb computed, persisted and returned, or the error.
UncachedLoad(s, c, sp, image_indexes) ==
  Persist(c, cache_file(sp), ComputeRoidb(s, sp, image_indexes))

\* Faulty variant: the cache file is not looked for.
load_roidb_NoCacheCheck(s, c, sp, image_indexes) ==
  UncachedLoad(s, c, sp, image_indexes)

\* load_roidb: the result, the cache files after it, and the cache files it
\* looked at and wrote.
load_roidb(s, c, sp, image_indexes) ==
  LET f == cache_file(sp)
  IN IF c[f].exists
       THEN [status |-> "ok", roidb |-> unpickle(c[f]), cache |-> c,
             hit |-> TRUE, log |-> <<>>, labelled |-> FALSE,
             reads |-> {f}, wrote |-> {}]
       ELSE UncachedLoad(s, c, sp, image_indexes)

\* load_probes: (image path, roi) per query, roi[2:] += roi[:2]
load_probes(s) ==
  [i \in 1..Len(s.test) |->
     [im_name |-> image_path(s.test[i].query.name),
      roi |-> ToXYXY(<<astype_int32(s.test[i].query.box)>>)[1]]]

---------------------------------------------------------------------------
(* The dataset object, the producers and the registration *)

NoDataset ==
  [status |-> "none", split |-> "none", image_indexes |-> <<>>, roidb |-> <<>>,
   probes |-> <<>>, hit |-> FALSE, log |-> <<>>, labelled |-> FALSE,
   reads |-> {}, wrote |-> {}]

\* The object __init__ leaves (or the error that left none), and the cache
\* files afterwards: r is what load_roidb gave.
DatasetOf(s, sp, image_indexes, r) ==
  [ds |-> [status |-> r.status, split |-> sp,
           image_indexes |-> image_indexes, roidb |-> r.roidb,
           probes |-> IF sp = "test" /\ r.status = "ok"
                        THEN load_probes(s) ELSE <<>>,
           hit |-> r.hit, log |-> r.log, labelled |-> r.labelled,
           reads |-> r.reads, wrote |-> r.wrote],
   cache |-> r.cache]

\* self.roidb = self.load_roidb(), with self.image_indexes set.
WithIndexes(s, c, sp, image_indexes) ==
  DatasetOf(s, sp, image_indexes, load_roidb(s, c, sp, image_indexes))

\* CUHK_SYSU.__init__
CUHK_SYSU(s, c, sp) == WithIndexes(s, c, sp, load_image_indexes(s, sp))

num_images(d) == Len(d.image_indexes)

\* One record of load_cuhk_sysu_instances: image_index paired with roidb[i].
InstanceDict(d, i) ==
  LET roidb == d.roidb[i]
      n == IF Len(roidb.gt_boxes) <= Len(roidb.gt_pids)
             THEN Len(roidb.gt_boxes) ELSE Len(roidb.gt_pids)
  IN [file_name |-> roidb.image,
      image_id |-> d.image_indexes[i],
      height |-> roidb.height,
      width |-> roidb.width,
      annotations |-> [j \in 1..n |->
                         [bbox |-> roidb.gt_boxes[j],
                          bbox_mode |-> "XYXY_ABS",
                          category_id |-> 1,
                          person_id |-> roidb.gt_pids[j]]]]

\* The gallery loop of load_cuhk_sysu_instances over the dataset d:
\* dataset.roidb[i] past the end of the roidb is an IndexError.
InstancesOf(d, c) ==
  [ds |-> d, cache |-> c,
   status |-> IF d.status # "ok" THEN d.status
              ELSE IF num_images(d) > Len(d.roidb) THEN "IndexError"
              ELSE "ok",
   dicts |-> IF d.status = "ok" /\ num_images(d) <= Len(d.roidb)
               THEN [i \in 1..num_images(d) |-> InstanceDict(d, i)]
               ELSE <<>>]

InstancesFrom(made) == InstancesOf(made.ds, made.cache)

\* load_cuhk_sysu_instances(dirname, split)
load_cuhk_sysu_instances(s, c, sp) == InstancesFrom(CUHK_SYSU(s, c, sp))

NoOutput == [name |-> "none", split |-> "none", status |-> "none", dicts |-> <<>>]

\* zip(["cuhk_sysu_train", "cuhk_sysu_test"], ["train", "test"])
RegPairs == <<<<"cuhk_sysu_train", "train">>, <<"cuhk_sysu_test", "test">>>>

DatasetNames == {RegPairs[i][1] : i \in DOMAIN RegPairs}

\* The split a dataset name was registered for.
SplitOf(name) ==
  RegPairs[CHOOSE i \in DOMAIN RegPairs : RegPairs[i][1] = name][2]

\* MetadataCatalog.get(dataset).set(...)
Metadata ==
  [thing_classes |-> <<"background", "person">>, dirname |-> "./data",
   evaluator_type |-> "cuhk_sysu"]

---------------------------------------------------------------------------
(* The inputs: annotation sources and image files *)

ImageBoxes == {<<10, 10, 5, 5>>, <<10, 10, 0, 5>>, <<Int32Max, 10, 1, 5>>}

ProtocolBoxes == {<<10, 10, 5, 5>>, <<1, 1, 3, 3>>}

Scenes == [name : Names, box : ProtocolBoxes]

\* A gallery entry is a scene, or an entry with an empty box.
GalleryEntries == Scenes \cup [name : Names, box : {<<>>}]

\* Images.mat: the listings of the images from the i-th name on, each image
\* at most once and in name order, with at most b boxes in all.
RECURSIVE ListingsFrom(_, _)
ListingsFrom(i, b) ==
  IF i > Len(NameOrder) THEN {<<>>}
  ELSE ListingsFrom(i + 1, b)
         \cup UNION {{<<[name |-> NameOrder[i], boxes |-> bl]>> \o rest :
                        rest \in ListingsFrom(i + 1, b - Len(bl))} :
                     bl \in SeqsUpTo(ImageBoxes, b)}

\* Train.mat: per identity its scenes (at least one), at most t scenes in all.
RECURSIVE TrainProtocols(_)
TrainProtocols(t) ==
  {<<>>} \cup UNION {{<<person>> \o rest :
                        rest \in TrainProtocols(t - Len(person))} :
                     person \in SeqsUpTo(Scenes, t) \ {<<>>}}

\* TestG50.mat: per query its box and its gallery, at most t boxes in all.
RECURSIVE TestProtocols(_)
TestProtocols(t) ==
  {<<>>} \cup UNION {{<<item>> \o rest :
                        rest \in TestProtocols(t - 1 - Len(item.gallery))} :
                     item \in [query : Scenes,
                               gallery : SeqsUpTo(GalleryEntries, t - 1)]}

AllFiles == [n \in Names |-> <<640, 480>>]

Sources(pools, listings, trains, tests, files) ==
  [pool : pools, imgs : listings, train : trains, test : tests, files : files]

\* The inputs of the load specification: every pool, listing and protocol
\* of at most MaxSize entries together, one protocol at a time.
SrcWide ==
  UNION {UNION {Sources([1..p -> Names], ListingsFrom(1, b),
                        TrainProtocols(MaxSize - p - b), {<<>>}, {AllFiles})
                  \cup Sources([1..p -> Names], ListingsFrom(1, b), {<<>>},
                               TestProtocols(MaxSize - p - b), {AllFiles}) :
                b \in 0..(MaxSize - p)} :
         p \in 0..MaxSize}

\* The inputs of the lifecycle specification: every pool of at most
\* MaxLifePool entries, the listings of the first name or of all names, each
\* image with one valid box, and one training identity.
SrcLife ==
  Sources(SeqsUpTo(Names, MaxLifePool),
          {l \in ListingsFrom(1, Len(NameOrder)) :
             /\ l # <<>>
             /\ l[1].name = NameOrder[1]
             /\ \A i \in DOMAIN l : l[i].boxes = <<<<10, 10, 5, 5>>>>},
          {<<<<[name |-> "s1.jpg", box |-> <<10, 10, 5, 5>>]>>>>},
          {<<>>},
          {AllFiles})

---------------------------------------------------------------------------
(* Actions *)

\* One iteration of the loop of register_cuhk_sysu: the loop variable split
\* is assigned, the producer (a lambda over the variable split, not over its
\* value) is registered and the metadata set.
Register ==
  /\ regIdx < Len(RegPairs)
  /\ regIdx' = regIdx + 1
  /\ split' = RegPairs[regIdx + 1][2]
  /\ catalog' = Put(catalog, RegPairs[regIdx + 1][1], Metadata)
  /\ UNCHANGED <<src, cache, writes, ds, out>>

WritesAfter(wrote) ==
  [f \in CacheFiles |-> IF f \in wrote THEN writes[f] + 1 ELSE writes[f]]

\* CUHK_SYSU(dirname, sp), called once the module is imported.
Construct(sp) ==
  /\ regIdx = Len(RegPairs)
  /\ \E made \in {CUHK_SYSU(src, cache, sp)} :
       /\ ds' = made.ds
       /\ cache' = made.cache
       /\ writes' = WritesAfter(made.ds.wrote)
  /\ out' = NoOutput
  /\ UNCHANGED <<src, regIdx, split, catalog>>

\* lambda: load_cuhk_sysu_instances(dirname, split), with the value the
\* variable split has when the producer is called.
Producer(s, c, cell) == load_cuhk_sysu_instances(s, c, cell)

\* DatasetCatalog.get(name)(): the catalog calls the registered producer.
CallProducer(name) ==
  /\ regIdx = Len(RegPairs)
  /\ name \in DOMAIN catalog
  /\ \E r \in {Producer(src, cache, split)} :
       /\ ds' = r.ds
       /\ cache' = r.cache
       /\ writes' = WritesAfter(r.ds.wrote)
       /\ out' = [name |-> name, split |-> r.ds.split, status |-> r.status,
                  dicts |-> r.dicts]
  /\ UNCHANGED <<src, regIdx, split, catalog>>

\* The environment deletes a cache file.
DeleteCache(f) ==
  /\ cache[f].exists
  /\ cache' = [cache EXCEPT ![f] = NoFile]
  /\ writes' = [writes EXCEPT ![f] = 0]
  /\ UNCHANGED <<src, ds, regIdx, split, catalog, out>>

\* The environment replaces one annotation file (or the image files).
ChangeSources(s) ==
  /\ Cardinality({k \in DOMAIN s : s[k] # src[k]}) = 1
  /\ src' = s
  /\ UNCHANGED <<cache, writes, ds, regIdx, split, catalog, out>>

---------------------------------------------------------------------------
(* Specifications *)

\* The lifecycle: the import registers the producers; then constructions,
\* producer calls, cache deletions and source changes in any order.
Init ==
  /\ src \in SrcLife
  /\ cache = [f \in CacheFiles |-> NoFile]
  /\ writes = [f \in CacheFiles |-> 0]
  /\ ds = NoDataset
  /\ regIdx = 0
  /\ split = "unbound"
  /\ catalog = EmptyMap
  /\ out = NoOutput

Next ==
  \/ Register
  \/ \E sp \in Splits : Construct(sp)
  \/ \E name \in DatasetNames : CallProducer(name)
  \/ \E f \in CacheFiles : DeleteCache(f)
  \/ \E s \in SrcLife : ChangeSources(s)

Spec == Init /\ [][Next]_vars

\* The loads: after the import, constructions and cache deletions over fixed
\* sources drawn from the wide input set.
InitLoad ==
  /\ src \in SrcWide
  /\ cache = [f \in CacheFiles |-> NoFile]
  /\ writes = [f \in CacheFiles |-> 0]
  /\ ds = NoDataset
  /\ regIdx = Len(RegPairs)
  /\ split = RegPairs[Len(RegPairs)][2]
  /\ catalog = [n \in DatasetNames |-> Metadata]
  /\ out = NoOutput

NextLoad ==
  \/ \E sp \in Splits : Construct(sp)
  \/ \E f \in CacheFiles : DeleteCache(f)

SpecLoad == InitLoad /\ [][NextLoad]_vars

---------------------------------------------------------------------------
(* Vocabulary of the properties *)

\* The image names of the global listing.
GlobalNames(s) == {s.imgs[i].name : i \in DOMAIN s.imgs}

\* The boxes of positive width and height the global listing gives an image.
SourceBoxes(s, name) ==
  LET e == CHOOSE i \in DOMAIN s.imgs : s.imgs[i].name = name
  IN SelectSeq(s.imgs[e].boxes, LAMBDA b : b[3] > 0 /\ b[4] > 0)

\* The (image, box, identity) entries of the protocol of a split, in order.
ProtocolEntries(s, sp) ==
  IF sp = "train" THEN TrainCalls(s.train) ELSE TestCalls(s.test)

\* The index list of a split: the one the latest construction computed, or
\* the one a construction would compute now.
IndexesOf(sp) ==
  IF ds.split = sp THEN ds.image_indexes ELSE load_image_indexes(src, sp)

\* The latest construction computed its roidb from the sources.
Computed == ds.status = "ok" /\ ~ds.hit

\* a + b, as an integer, is a 32-bit value.
FitsInt32(a, b) ==
  /\ (a >= 0 /\ b >= 0) => a <= Int32Max - b
  /\ (a < 0 /\ b < 0) => a >= Int32Min - b

\* The step is a construction of split sp, direct or by a producer.
LoadStep(sp) ==
  /\ src' = src
  /\ regIdx' = regIdx
  /\ ds'.split = sp
  /\ \/ Construct(sp)
     \/ split = sp /\ \E name \in DatasetNames : CallProducer(name)

---------------------------------------------------------------------------
(* C1: image index lists *)

\* C1 as stated: the train and test index lists share no name and their
\* union is the set of names of the global listing, whatever the pool.
C1_AsStated ==
  ds.split \in Splits =>
    /\ Range(IndexesOf("train")) \cap Range(IndexesOf("test")) = {}
    /\ Range(IndexesOf("train")) \cup Range(IndexesOf("test")) = GlobalNames(src)

\* C1 amended: the train and test index lists share no name and their union
\* is the set of names of the global listing together with the pool's names;
\* it is the global set when every pool name is in the global listing.
C1_Partition ==
  ds.split \in Splits =>
    /\ Range(IndexesOf("train")) \cap Range(IndexesOf("test")) = {}
    /\ Range(IndexesOf("train")) \cup Range(IndexesOf("test"))
         = GlobalNames(src) \cup Range(src.pool)
    /\ Range(src.pool) \subseteq GlobalNames(src) =>
         Range(IndexesOf("train")) \cup Range(IndexesOf("test")) = GlobalNames(src)

C1_Witness ==
  /\ ds.split = "train"
  /\ ds.image_indexes # <<>>
  /\ src.pool # <<>>
  /\ Range(src.pool) \subseteq GlobalNames(src)

---------------------------------------------------------------------------
(* C2: the registered producers *)

\* C2: a producer called under a registered name runs the adapter with the
\* split that name was registered for.
C2_ProducerSplit ==
  out.name \in DatasetNames => out.split = SplitOf(out.name)

---------------------------------------------------------------------------
(* C3: the assembled records *)

\* The identity the protocol gives the j-th valid box of an image: that of
\* the last entry naming its coordinates, for the first box with them.
ProtocolPid(s, sp, name, j) ==
  LET boxes == SourceBoxes(s, name)
      es == ProtocolEntries(s, sp)
      naming == {k \in DOMAIN es : es[k].name = name /\ es[k].box = boxes[j]}
  IN IF naming = {} \/ \E i \in 1..(j - 1) : boxes[i] = boxes[j]
       THEN -1
       ELSE es[CHOOSE k \in naming : \A o \in naming : o <= k].pid

\* C3: in a computed roidb every entry of the index list, an image name
\* that occurs more than once included, has, for each valid source box
\* (x, y, w, h) and in its position, the box (x, y, x+w, y+h) with the
\* identity the protocol gave that box.  Stated for the boxes whose x+w and
\* y+h are 32-bit values.
C3_RecordsFromSource ==
  Computed =>
    \A i \in DOMAIN ds.image_indexes :
      LET name == ds.image_indexes[i]
          boxes == SourceBoxes(src, name)
          rec == ds.roidb[i]
      IN /\ Len(rec.gt_boxes) = Len(boxes)
         /\ Len(rec.gt_pids) = Len(boxes)
         /\ \A j \in DOMAIN boxes :
              (FitsInt32(boxes[j][1], boxes[j][3])
                 /\ FitsInt32(boxes[j][2], boxes[j][4]))
              => /\ rec.gt_boxes[j] = <<boxes[j][1], boxes[j][2],
                                        boxes[j][1] + boxes[j][3],
                                        boxes[j][2] + boxes[j][4]>>
                 /\ rec.gt_pids[j] = ProtocolPid(src, ds.split, name, j)

---------------------------------------------------------------------------
(* C9: box geometry *)

\* C9: in a computed roidb every box has x2 > x1 and y2 > y1, its
\* coordinates 32-bit integers, and only the source boxes of positive width
\* and height are present.  Stated for the images that occur once in the
\* index list.
C9_PositiveBoxes ==
  Computed =>
    \A i \in DOMAIN ds.roidb :
      Cardinality({k \in DOMAIN ds.image_indexes :
                     ds.image_indexes[k] = ds.image_indexes[i]}) = 1
      => /\ Len(ds.roidb[i].gt_boxes)
              = Len(SourceBoxes(src, ds.image_indexes[i]))
         /\ \A j \in DOMAIN ds.roidb[i].gt_boxes :
              /\ \A k \in 1..4 :
                   ds.roidb[i].gt_boxes[j][k] \in Int32Min..Int32Max
              /\ ds.roidb[i].gt_boxes[j][3] > ds.roidb[i].gt_boxes[j][1]
              /\ ds.roidb[i].gt_boxes[j][4] > ds.roidb[i].gt_boxes[j][2]

---------------------------------------------------------------------------
(* C4, C5: the cache file *)

\* C4: when the latest construction computed and persisted the roidb of a
\* split and the next load of that split finds the cache file, that load
\* returns the same list of records.
C4_ReloadEqual ==
  [][\A sp \in Splits :
       (/\ Computed
        /\ ds.split = sp
        /\ cache[cache_file(sp)].exists
        /\ LoadStep(sp))
       => /\ ds'.status = "ok"
          /\ ds'.hit
          /\ ds'.roidb = ds.roidb]_vars

\* A roidb with a labelled box was computed, persisted, and read back.
C4_Witness ==
  /\ ds.status = "ok"
  /\ ds.hit
  /\ \E i \in DOMAIN ds.roidb : \E j \in DOMAIN ds.roidb[i].gt_pids :
       ds.roidb[i].gt_pids[j] >= 0

\* C5: while the cache file of a split exists, a load of that split returns
\* its content and writes no file, no step but its deletion changes the
\* file, it is written once between creation and deletion, and a load looks
\* at and writes no cache file but its own split's.
C5_CacheReadOnly ==
  [][\A sp \in Splits :
       LET f == <<"cache", sp, "_roidb.pkl">>
       IN /\ (cache[f].exists /\ cache'[f].exists)
             => cache'[f] = cache[f] /\ writes'[f] = writes[f]
          /\ writes'[f] <= 1
          /\ LoadStep(sp)
             => /\ ds'.reads \subseteq {f}
                /\ ds'.wrote \subseteq {f}
                /\ \A g \in CacheFiles \ {f} : cache'[g] = cache[g]
                /\ cache[f].exists
                   => /\ ds'.status = "ok"
                      /\ ds'.roidb = cache[f].content
                      /\ ds'.wrote = {}
                      /\ cache' = cache]_vars

\* A load returned the cache file's content although the sources now give
\* the split another index list.
C5_Witness ==
  /\ ds.status = "ok"
  /\ ds.hit
  /\ Len(ds.roidb) # Len(load_image_indexes(src, ds.split))
  /\ \E g \in CacheFiles \ {cache_file(ds.split)} : cache[g].exists

---------------------------------------------------------------------------
(* C6: identities of the train split *)

\* C6 as stated: in a computed train roidb every identity is in [-1, N-1],
\* N the number of entries of Train.mat, and a box has identity -1 only if
\* no protocol entry names its coordinates in its image.
C6_AsStated ==
  (Computed /\ ds.split = "train") =>
    \A i \in DOMAIN ds.roidb :
      LET name == ds.image_indexes[i]
          boxes == SourceBoxes(src, name)
          es == ProtocolEntries(src, "train")
      IN \A j \in DOMAIN ds.roidb[i].gt_pids :
           /\ ds.roidb[i].gt_pids[j] \in -1..(Len(src.train) - 1)
           /\ ds.roidb[i].gt_pids[j] = -1 =>
                ~\E k \in DOMAIN es : es[k].name = name /\ es[k].box = boxes[j]

\* C6 amended: every identity is in [-1, N-1], and a box has identity -1
\* only if no protocol entry names its coordinates in its image or an
\* earlier box of the image has the same coordinates.
C6_PidRange ==
  (Computed /\ ds.split = "train") =>
    \A i \in DOMAIN ds.roidb :
      LET name == ds.image_indexes[i]
          boxes == SourceBoxes(src, name)
          es == ProtocolEntries(src, "train")
      IN \A j \in DOMAIN ds.roidb[i].gt_pids :
           /\ ds.roidb[i].gt_pids[j] \in -1..(Len(src.train) - 1)
           /\ ds.roidb[i].gt_pids[j] = -1 =>
                \/ ~\E k \in DOMAIN es : es[k].name = name /\ es[k].box = boxes[j]
                \/ \E e \in 1..(j - 1) : boxes[e] = boxes[j]

\* A computed train roidb holds an image with two boxes of the same
\* coordinates, the first labelled with the last identity, the second not.
C6_Witness ==
  /\ Computed
  /\ ds.split = "train"
  /\ Len(src.train) > 0
  /\ \E i \in DOMAIN ds.roidb :
       /\ Len(ds.roidb[i].gt_pids) = 2
       /\ ds.roidb[i].gt_boxes[1] = ds.roidb[i].gt_boxes[2]
       /\ ds.roidb[i].gt_pids[1] = Len(src.train) - 1
       /\ ds.roidb[i].gt_pids[2] = -1

---------------------------------------------------------------------------
(* C7: a protocol box no box of the image equals *)

\* An image of the global listing has no box of positive width and height.
NoValidBox(s) ==
  \E i \in DOMAIN s.imgs :
    \A k \in DOMAIN s.imgs[i].boxes :
      ~(s.imgs[i].boxes[k][3] > 0 /\ s.imgs[i].boxes[k][4] > 0)

\* What else ends an uncached load: an image without a valid box, a protocol
\* entry or an index entry naming an unlisted image, a missing image file.
OtherFailure(s, sp, image_indexes) ==
  \/ NoValidBox(s)
  \/ \E k \in DOMAIN ProtocolEntries(s, sp) :
       ProtocolEntries(s, sp)[k].name \notin GlobalNames(s)
  \/ \E i \in DOMAIN image_indexes :
       image_indexes[i] \notin GlobalNames(s) \cap DOMAIN s.files

\* C7: a set_box_pid call whose box equals no box of the image logs a
\* warning, raises nothing and leaves the image's identities as they were;
\* the next protocol entry is processed, after the last one the labelling is
\* complete, and the load fails only for another reason.
C7_UnmatchedBox ==
  \A k \in DOMAIN ds.log :
    LET c == ds.log[k]
    IN (~c.raised /\ ~\E e \in DOMAIN SourceBoxes(src, c.name) :
                        SourceBoxes(src, c.name)[e] = c.box)
       => /\ c.warned
          /\ c.after = c.before
          /\ k < Len(ds.log) \/ ds.labelled
          /\ ds.status = "ok" \/ OtherFailure(src, ds.split, ds.image_indexes)

\* A load completed after an unmatched entry that was followed by an entry
\* that labelled a box.
C7_Witness ==
  /\ Computed
  /\ \E k \in DOMAIN ds.log :
       /\ ds.log[k].warned
       /\ k < Len(ds.log)
       /\ ~ds.log[k + 1].warned
  /\ \E i \in DOMAIN ds.roidb : \E j \in DOMAIN ds.roidb[i].gt_pids :
       ds.roidb[i].gt_pids[j] >= 0

---------------------------------------------------------------------------
(* C8: an image without a valid box *)

\* C8: with an image of the global listing that has no box of positive width
\* and height, every load fails with the assertion error, none writes a
\* cache file, and so no load finds one.
C8_NoValidBoxes ==
  NoValidBox(src) =>
    /\ \A f \in CacheFiles : ~cache[f].exists /\ writes[f] = 0
    /\ ds.split \in Splits =>
         /\ ds.status = "AssertionError"
         /\ ~ds.hit
         /\ ds.wrote = {}
         /\ ds.roidb = <<>>

\* A load failed on a listing with a valid image and an image whose only
\* box has width 0.
C8_Witness ==
  /\ ds.status = "AssertionError"
  /\ \E i \in DOMAIN src.imgs : src.imgs[i].boxes = <<<<10, 10, 0, 5>>>>
  /\ \E i \in DOMAIN src.imgs : src.imgs[i].boxes = <<<<10, 10, 5, 5>>>>
  /\ ds.image_indexes # <<>>

---------------------------------------------------------------------------
(* C10: roidb and image_indexes *)

Aligned(d) ==
  /\ Len(d.roidb) = num_images(d)
  /\ \A i \in DOMAIN d.image_indexes :
       d.roidb[i].image = <<"./data", "Image", "SSM", d.image_indexes[i]>>

\* C10 as stated: after every construction, computed or read from the
\* cache, the roidb has one record per entry of image_indexes, in order.
C10_AsStated == ds.status = "ok" => Aligned(ds)

\* C10 amended: after a construction that computed the roidb, it has one
\* record per entry of image_indexes, in order, and the producer pairs each
\* image identifier with its own record; a roidb read from the cache file is
\* the list the file holds.
C10_Aligned ==
  /\ Computed => Aligned(ds)
  /\ (Computed /\ out.name \in DatasetNames) =>
       /\ out.status = "ok"
       /\ Len(out.dicts) = num_images(ds)
       /\ \A i \in DOMAIN out.dicts :
            /\ out.dicts[i].image_id = ds.image_indexes[i]
            /\ out.dicts[i].file_name
                 = <<"./data", "Image", "SSM", ds.image_indexes[i]>>
  /\ (ds.status = "ok" /\ ds.hit /\ cache[cache_file(ds.split)].exists) =>
       ds.roidb = cache[cache_file(ds.split)].content

\* A producer returned the records of a computed roidb of two images.
C10_Witness ==
  /\ Computed
  /\ out.status = "ok"
  /\ Len(out.dicts) = 2

===========================================================================
